---- MODULE Spec2Model ----
(***************************************************************************)
(* UndoRedoManager (src/src/undo-redo-manager.ts): a registry of           *)
(* per-document undo/redo handles and, per scope, an undo stack and a redo *)
(* stack of Change records.  Every public method of the class is one       *)
(* action; a method runs to completion (the class is synchronous), so the  *)
(* calls it makes on the handles are part of the action.                   *)
(*                                                                         *)
(* Spec explores the methods called one by one; SpecTransaction explores   *)
(* transaction(fn, options), with functions that register handles;         *)
(* SpecHandles follows, besides the manager, what the handle objects hold  *)
(* themselves, with documents that are registered a second time.           *)
(***************************************************************************)
EXTENDS Naturals, Sequences, FiniteSets

(* ------------------------------ bounds -------------------------------- *)

\* Longest dependencies list a caller passes.
MaxDeps == 2

\* Most Change records held in all stacks together.
MaxHistory == 2

\* Most Change records held in all stacks together while transaction() is
\* explored (SpecTransaction).
MaxTransactions == 1

\* Most transactions the handles record while their internal state is
\* followed (SpecHandles).
MaxRecordings == 2

(* ------------------------------ values -------------------------------- *)

\* The documents that exist.
DocumentId == {"d1", "d2"}

\* The wrapper objects (AutomergeRepoUndoRedo instances) that exist for one
\* document: addHandle called again for a document may bring another one.
Wrapper == {"w1"}

\* A handle object: the wrapper `obj` of the document `id`
\* (undoableHandle.handle.documentId = id).
Handle == [id : DocumentId, obj : Wrapper]

\* With a second wrapper object per document: what addHandle gets when it
\* is called again with the raw DocHandle of a registered document.
OtherWrapper == {"w2"}
Reregistered == {"d1"}
AnyHandle == Handle \cup [id : Reregistered, obj : OtherWrapper]

\* An optional value (T | undefined): <<>> is undefined, <<v>> is v.
None == <<>>
Some(v) == <<v>>

\* string | symbol.  A symbol is never equal to a string, whatever its
\* description.
Str(s) == [kind |-> "string", name |-> s]
Sym(s) == [kind |-> "symbol", name |-> s]

\* The token imported from ./automerge-repo-undo-redo.
defaultScope == Sym("default")

\* The scope keys callers use: the token, a string that spells the token's
\* description, and a string that names a property every object inherits
\* from Object.prototype.
ScopeKey == {defaultScope, Str("default"), Str("constructor")}

\* Property names a plain object ({ ... }) inherits.  The inherited value
\* is truthy and is not an array: it has no push, pop or map, and the
\* "constructor" value (the function Object) has length 1.
ObjectPrototypeKeys == {Str("constructor")}
InheritedLength(scope) == 1

Description == {None, Some("a")}

\* type Change = { description, ids }
Change(description, ids) == [description |-> description, ids |-> ids]

\* dependencies?: DocumentId[]
NoDeps == [given |-> FALSE, ids |-> <<>>]
Deps(ids) == [given |-> TRUE, ids |-> ids]
SeqUpTo(S, n) == UNION {[1..k -> S] : k \in 0..n}
NoRepeat(q) == \A i, j \in 1..Len(q) : q[i] = q[j] => i = j
\* The lists callers pass name a document once.
Dependencies ==
  {NoDeps} \cup {Deps(ids) : ids \in {q \in SeqUpTo(DocumentId, MaxDeps) : NoRepeat(q)}}

(* ------------------------------ state --------------------------------- *)

VARIABLES
  handles,     \* #handles: the Map's entries, in insertion order
  undoStack,   \* #undoStack: the array stored under each own key
  redoStack,   \* #redoStack: likewise
  undoKeys,    \* own keys of #undoStack
  redoKeys,    \* own keys of #redoStack
  last,        \* the manager call that has just run (Idle: it has returned)
  calls,       \* the handle calls that call made, in order
  result,      \* what it returned or threw
  pre,         \* the stacks, their keys and the registry as they were
               \* when that call began
  handleState, \* what each handle object holds, per scope: the entries it
               \* can undo and the entries it can redo (followed in
               \* SpecHandles only)
  ledger       \* what has happened so far (kept in SpecHandles only): the
               \* number of transactions recorded, whether a handle call
               \* has thrown, whether a registered handle was replaced by
               \* another object, and the handle last given to addHandle
               \* for each document

vars ==
  <<handles, undoStack, redoStack, undoKeys, redoKeys, last, calls, result, pre,
    handleState, ledger>>

(* ------------------------- the handle registry ------------------------ *)

\* Map.prototype.has / get / set on #handles.  set keeps the position of a
\* key that is already there and appends a new one.
MapIndex(id) == CHOOSE i \in 1..Len(handles) : handles[i].id = id
MapHas(id) == \E i \in 1..Len(handles) : handles[i].id = id
MapGet(id) == handles[MapIndex(id)]
\* A slip: a key that is already there keeps its value.
MapSet_KeepFirst(h) == IF MapHas(h.id) THEN handles ELSE Append(handles, h)

MapSet(h) ==
  IF MapHas(h.id) THEN [handles EXCEPT ![MapIndex(h.id)] = h] ELSE Append(handles, h)

\* A slip: the dependencies are ignored and every registered handle is taken.
HandleEntries_All(deps) == handles

\* dependencies ? dependencies.map(get).filter(Boolean) : [...#handles.values()]
\* (an empty array is truthy: it selects no handle).
HandleEntries(deps) ==
  IF deps.given
    THEN LET known == SelectSeq(deps.ids, MapHas)
         IN  [i \in 1..Len(known) |-> MapGet(known[i])]
    ELSE handles

\* A slip: every registered handle is replayed, not those of the Change.
ReplayEntries_Registry(ids) == handles

\* change.ids.forEach(id => { const handle = get(id); if (handle) ... })
ReplayEntries(ids) ==
  LET known == SelectSeq(ids, MapHas)
  IN  [i \in 1..Len(known) |-> MapGet(known[i])]

\* A slip: the error of a handle is held back until every handle was called.
Made_All(n, failing) == n

\* forEach / map over n handles stops at the first call that throws: the
\* number of calls made when the call at position `failing` throws (0: none).
Made(n, failing) == IF failing = 0 THEN n ELSE failing

(* --------------------------- the scoped stacks ------------------------ *)

\* this.#undoStack[scope] on a plain object: an own array, else a value
\* inherited from Object.prototype, else undefined.
Lookup(keys, scope) ==
  IF scope \in keys THEN "array"
  ELSE IF scope \in ObjectPrototypeKeys THEN "inherited"
  ELSE "undefined"

\* A slip: the slot is given a new [] without the test that it is falsy.
getStacks_Fresh(scope) ==
  [undoKeys  |-> undoKeys \cup {scope},
   redoKeys  |-> redoKeys \cup {scope},
   undoStack |-> [undoStack EXCEPT ![scope] = <<>>],
   redoStack |-> [redoStack EXCEPT ![scope] = <<>>],
   undoIsArray |-> TRUE,
   redoIsArray |-> TRUE]

\* getStacks: a falsy slot gets a new []; what is returned is whatever the
\* slot then holds.
getStacks(scope) ==
  [undoKeys  |-> IF Lookup(undoKeys, scope) = "undefined"
                   THEN undoKeys \cup {scope} ELSE undoKeys,
   redoKeys  |-> IF Lookup(redoKeys, scope) = "undefined"
                   THEN redoKeys \cup {scope} ELSE redoKeys,
   undoStack |-> IF Lookup(undoKeys, scope) = "undefined"
                   THEN [undoStack EXCEPT ![scope] = <<>>] ELSE undoStack,
   redoStack |-> IF Lookup(redoKeys, scope) = "undefined"
                   THEN [redoStack EXCEPT ![scope] = <<>>] ELSE redoStack,
   undoIsArray |-> Lookup(undoKeys, scope) # "inherited",
   redoIsArray |-> Lookup(redoKeys, scope) # "inherited"]

\* scope ?? defaultScope, and the default parameter scope = defaultScope.
Resolve(optScope) == IF optScope = None THEN defaultScope ELSE optScope[1]

\* The scope arguments callers pass: none, or one of the strings.
OptScope == {None} \cup {Some(s) : s \in ScopeKey \ {defaultScope}}

TotalHistory(us, rs) ==
  LET RECURSIVE Sum(_)
      Sum(S) == IF S = {} THEN 0
                ELSE LET s == CHOOSE x \in S : TRUE
                     IN  Len(us[s]) + Len(rs[s]) + Sum(S \ {s})
  IN  Sum(ScopeKey)

(* ------------------------- calls and results -------------------------- *)

\* One call the manager makes on a handle: the method, the handle object,
\* the scope it is given (options.scope for endTransaction, the scope
\* argument for undo and redo) and how the call ended: "true" or "false"
\* for endTransaction, "void", or "throw".
Call(m, h, optScope, ret) == [m |-> m, h |-> h, scope |-> optScope, ret |-> ret]

Undefined == [kind |-> "undefined"]
Throw(e) == [kind |-> "throw", error |-> e]
Value(v) == [kind |-> "value", value |-> v]

\* { description, ids, scope }
Recorded(description, ids, scope) ==
  [description |-> description, ids |-> ids, scope |-> scope]

\* What the function given to transaction() did: the description it
\* returned (if any) and the handles it registered with addHandle while it
\* ran, in order.  NoFn: the call takes no function.
Fn(returned, added) == [returned |-> returned, added |-> added]
NoFn == Fn(None, <<>>)

Idle ==
  [op |-> "idle", scope |-> None, description |-> None, deps |-> NoDeps, fn |-> NoFn,
   id |-> None]

\* The fields of the manager as they are now.
Snapshot ==
  [undo |-> undoStack, redo |-> redoStack,
   undoKeys |-> undoKeys, redoKeys |-> redoKeys, handles |-> handles,
   handleState |-> handleState]

\* A call begins when the one before has returned.  It is described by its
\* method, the scope it resolves (if it has one), the description and the
\* dependencies it is given (if it takes them), what its function does (if
\* it takes one) and the document id it is given (if it takes one).
Entered(op, scope, description, deps, fn, id) ==
  /\ last = Idle
  /\ last' = [op |-> op, scope |-> scope, description |-> description,
              deps |-> deps, fn |-> fn, id |-> id]
  /\ pre' = Snapshot

BeginWith(op, scope, description, deps, fn) ==
  Entered(op, scope, description, deps, fn, None)

Begin(op, scope, description, deps) == BeginWith(op, scope, description, deps, NoFn)

\* What the stacks are once getStacks(scope) has run and nothing else.
OnlyGetStacks(g) ==
  /\ undoKeys' = g.undoKeys
  /\ redoKeys' = g.redoKeys
  /\ undoStack' = g.undoStack
  /\ redoStack' = g.redoStack

(* ------------------------- the handles' own state --------------------- *)

\* AutomergeRepoUndoRedo keeps, for each scope, the entries it can undo and
\* the entries it can redo.  An entry is named here by the description of
\* the transaction that recorded it.
NoEntries == [undo |-> <<>>, redo |-> <<>>]

\* handle.endTransaction(options) returning true: an entry for the scope of
\* the options is recorded, and what the handle could redo there is gone.
HandleRecord(entries, description) ==
  [undo |-> Append(entries.undo, description), redo |-> <<>>]

\* handle.undo(scope): the most recent entry of the scope is reversed and
\* can then be redone; nothing happens when there is none.
HandleUndo(entries) ==
  IF entries.undo = <<>> THEN entries
  ELSE [undo |-> SubSeq(entries.undo, 1, Len(entries.undo) - 1),
        redo |-> Append(entries.redo, entries.undo[Len(entries.undo)])]

\* handle.redo(scope): the mirror image.
HandleRedo(entries) ==
  IF entries.redo = <<>> THEN entries
  ELSE [undo |-> Append(entries.undo, entries.redo[Len(entries.redo)]),
        redo |-> SubSeq(entries.redo, 1, Len(entries.redo) - 1)]

\* The handles' state once the handle calls cs were made, endTransaction
\* with the given description.  A call that throws is taken to have left
\* its handle as it was.
Driven(state, cs, description) ==
  LET RECURSIVE After(_)
      After(n) ==
        IF n = 0 THEN state
        ELSE LET st == After(n - 1)
                 c == cs[n]
                 scope == Resolve(c.scope)
             IN  IF c.m = "endTransaction" /\ c.ret = "true"
                   THEN [st EXCEPT ![c.h][scope] = HandleRecord(@, description)]
                 ELSE IF c.m = "undo" /\ c.ret = "void"
                   THEN [st EXCEPT ![c.h][scope] = HandleUndo(@)]
                 ELSE IF c.m = "redo" /\ c.ret = "void"
                   THEN [st EXCEPT ![c.h][scope] = HandleRedo(@)]
                 ELSE st
  IN  After(Len(cs))

\* The handles' state is not followed.
Untracked == UNCHANGED <<handleState, ledger>>

\* The handles' state is followed through the manager call being made.
Tracked ==
  /\ handleState' = Driven(handleState, calls', last'.description)
  /\ ledger' =
       [ledger EXCEPT
          !.recordings =
             IF \E i \in 1..Len(calls') : calls'[i].ret = "true" THEN @ + 1 ELSE @,
          !.raised = @ \/ \E i \in 1..Len(calls') : calls'[i].ret = "throw"]

\* addHandle(h) is followed.
TrackedAdd(h) ==
  /\ UNCHANGED handleState
  /\ ledger' =
       [ledger EXCEPT
          !.replaced = @ \/ (MapHas(h.id) /\ MapGet(h.id) # h),
          !.lastAdded = [@ EXCEPT ![h.id] = Some(h)]]

\* The description a caller gives the n-th transaction recorded when it
\* names each transaction differently.
DescriptionNames == <<"a", "b", "c", "d", "e">>
NthDescription(n) == Some(DescriptionNames[n])

(* --------------------------- the first state -------------------------- *)

Init ==
  /\ handles = <<>>
  /\ undoKeys = {defaultScope}
  /\ redoKeys = {defaultScope}
  /\ undoStack = [s \in ScopeKey |-> <<>>]
  /\ redoStack = [s \in ScopeKey |-> <<>>]
  /\ last = Idle
  /\ calls = <<>>
  /\ result = Undefined
  /\ handleState = [h \in AnyHandle |-> [s \in ScopeKey |-> NoEntries]]
  /\ ledger = [recordings |-> 0, raised |-> FALSE, replaced |-> FALSE,
               lastAdded |-> [id \in DocumentId |-> None]]
  /\ pre = Snapshot

(* ------------------------------ actions ------------------------------- *)

\* The call returns to its caller, which takes the result.
Return ==
  /\ last # Idle
  /\ last' = Idle
  /\ calls' = <<>>
  /\ result' = Undefined
  /\ pre' = Snapshot
  /\ UNCHANGED <<handles, undoStack, redoStack, undoKeys, redoKeys>>

\* addHandle(handle): a raw DocHandle is wrapped in a new wrapper object, a
\* wrapper is taken as it is; h is the wrapper that ends up stored.
AddHandle(h) ==
  /\ Begin("addHandle", None, None, NoDeps)
  /\ handles' = MapSet(h)
  /\ calls' = <<>>
  /\ result' = Value(h)
  /\ UNCHANGED <<undoStack, redoStack, undoKeys, redoKeys>>

GetUndoRedoHandle(documentId) ==
  /\ Entered("getUndoRedoHandle", None, None, NoDeps, NoFn, Some(documentId))
  /\ calls' = <<>>
  /\ result' = IF MapHas(documentId) THEN Value(MapGet(documentId)) ELSE Undefined
  /\ UNCHANGED <<handles, undoStack, redoStack, undoKeys, redoKeys>>

\* startTransaction(dependencies): handle.startTransaction() on each target;
\* `failing` is the position of the first target whose call throws (0: none).
StartTransaction(deps, failing) ==
  LET entries == HandleEntries(deps)
  IN  /\ Begin("startTransaction", None, None, deps)
      /\ failing \in 0..Len(entries)
      /\ calls' = [i \in 1..Made(Len(entries), failing) |->
                     Call("startTransaction", entries[i], None,
                          IF i = failing THEN "throw" ELSE "void")]
      /\ result' = IF failing = 0 THEN Undefined ELSE Throw("HandleError")
      /\ UNCHANGED <<handles, undoStack, redoStack, undoKeys, redoKeys>>

\* results: the ids of the entries whose endTransaction returned true, in
\* the order of the entries (map ... filter(id => id !== null)).
Results(entries, changed) ==
  LET RECURSIVE Collect(_)
      Collect(i) ==
        IF i > Len(entries) THEN <<>>
        ELSE IF i \in changed THEN <<entries[i].id>> \o Collect(i + 1)
        ELSE Collect(i + 1)
  IN  Collect(1)

\* A slip: the early return is missing.
NothingRecorded_Never(results) == FALSE

\* if (results.length === 0) return
NothingRecorded(results) == Len(results) = 0

\* undoStack.push({ description, ids: results })
PushUndo(us, scope, description, ids) ==
  [us EXCEPT ![scope] = Append(@, Change(description, ids))]

\* Two slips: the redo stack is not reset; the whole store is reset.
ResetRedo_Kept(rs, scope) == rs
ResetRedo_EveryScope(rs, scope) == [s \in DOMAIN rs |-> <<>>]

\* this.#redoStack[scope] = []
ResetRedo(rs, scope) == [rs EXCEPT ![scope] = <<>>]

\* endTransaction(options): handle.endTransaction(options) on each target;
\* `changed` are the positions whose call returns true, `failing` the
\* position of the first target whose call throws (0: none).
\* The body of endTransaction on the target handles `entries`; `before`
\* are the handle calls the running manager call has made already.
EndPhase(before, entries, optScope, description, changed, failing) ==
  LET scope == Resolve(optScope)
      g == getStacks(scope)
      results == Results(entries, changed)
  IN  /\ failing \in 0..Len(entries)
      /\ changed \in SUBSET (1..(Made(Len(entries), failing)))
      /\ failing \notin changed
      /\ calls' = before \o
                   [i \in 1..Made(Len(entries), failing) |->
                     Call("endTransaction", entries[i], optScope,
                          IF i = failing THEN "throw"
                          ELSE IF i \in changed THEN "true" ELSE "false")]
      /\ IF failing # 0
           THEN result' = Throw("HandleError") /\ OnlyGetStacks(g)
         ELSE IF NothingRecorded(results)
           THEN result' = Undefined /\ OnlyGetStacks(g)
         ELSE IF ~g.undoIsArray
           \* undoStack.push is not a function
           THEN result' = Throw("TypeError") /\ OnlyGetStacks(g)
         ELSE /\ undoStack' = PushUndo(g.undoStack, scope, description, results)
              /\ redoStack' = ResetRedo(g.redoStack, scope)
              /\ undoKeys' = g.undoKeys
              /\ redoKeys' = g.redoKeys \cup {scope}
              /\ result' = Value(Recorded(description, results, scope))
      /\ TotalHistory(undoStack', redoStack') <= MaxHistory

EndTransaction(optScope, description, deps, changed, failing) ==
  /\ Begin("endTransaction", Some(Resolve(optScope)), description, deps)
  /\ UNCHANGED handles
  /\ EndPhase(<<>>, HandleEntries(deps), optScope, description, changed, failing)

\* A slip: the description of the options wins over the function's.
FnDescription_OptionsFirst(returned, given) == IF given # None THEN given ELSE returned

\* fn() ?? options?.description
FnDescription(returned, given) == IF returned # None THEN returned ELSE given

\* A slip: the options are not spread into the call, which then has no
\* dependencies.
SpreadDependencies_Dropped(deps) == NoDeps

\* { ...options, description }: the dependencies endTransaction is given.
SpreadDependencies(deps) == deps

\* The registry once the handles of `added` were registered in order.
AddAll(registry, added) ==
  LET RECURSIVE Add(_)
      Add(n) ==
        IF n = 0 THEN registry
        ELSE LET r == Add(n - 1)
                 h == added[n]
                 has == \E i \in 1..Len(r) : r[i].id = h.id
                 at == CHOOSE i \in 1..Len(r) : r[i].id = h.id
             IN  IF has THEN [r EXCEPT ![at] = h] ELSE Append(r, h)
  IN  Add(Len(added))

\* transaction(fn, options): startTransaction(options.dependencies), then
\* fn(), then endTransaction({ ...options, description }).  fn is the
\* caller's: it edits documents, may register handles with addHandle (the
\* list `added`), and returns a description or nothing (`returned`) or
\* throws (`fnThrows`).  `startFailing` is the position of the first target
\* whose startTransaction throws (0: none); `changed` and `failing` are as
\* in endTransaction.
Transaction(optScope, description, deps, startFailing, returned, added, fnThrows, changed, failing) ==
  LET started == HandleEntries(deps)
      startCalls == [i \in 1..Made(Len(started), startFailing) |->
                       Call("startTransaction", started[i], None,
                            IF i = startFailing THEN "throw" ELSE "void")]
  IN  /\ last = Idle
      /\ startFailing \in 0..Len(started)
      /\ IF startFailing # 0
           \* startTransaction throws: fn is not called
           THEN /\ BeginWith("transaction", Some(Resolve(optScope)), description,
                             deps, NoFn)
                /\ returned = None /\ added = <<>> /\ ~fnThrows
                /\ changed = {} /\ failing = 0
                /\ calls' = startCalls
                /\ result' = Throw("HandleError")
                /\ UNCHANGED <<handles, undoStack, redoStack, undoKeys, redoKeys>>
         ELSE IF fnThrows
           \* fn throws: endTransaction is not called
           THEN /\ BeginWith("transaction", Some(Resolve(optScope)), description,
                             deps, Fn(None, added))
                /\ returned = None
                /\ changed = {} /\ failing = 0
                /\ handles' = AddAll(handles, added)
                /\ calls' = startCalls
                /\ result' = Throw("FnError")
                /\ UNCHANGED <<undoStack, redoStack, undoKeys, redoKeys>>
         ELSE /\ BeginWith("transaction", Some(Resolve(optScope)), description,
                           deps, Fn(returned, added))
              /\ handles' = AddAll(handles, added)
              /\ EndPhase(startCalls, HandleEntries(SpreadDependencies(deps))', optScope,
                          FnDescription(returned, description), changed, failing)

\* A slip: the oldest element is read (shift's element, not pop's).
Top_Oldest(stack) == stack[1]

\* array.pop(): the last element is removed and returned.
Top(stack) == stack[Len(stack)]

\* A slip: the top is read and left in place.
Pop_Kept(stack) == stack

Pop(stack) == SubSeq(stack, 1, Len(stack) - 1)

\* A slip: unshift for push.
PushOther_Front(stack, change) == <<change>> \o stack

\* redoStack.push(change) in #undo, undoStack.push(change) in #redo.
PushOther(stack, change) == Append(stack, change)

\* The two stacks once the change popped from from[scope] is pushed on
\* to[scope].
MoveTop(from, to, scope) ==
  [from |-> [from EXCEPT ![scope] = Pop(@)],
   to   |-> [to EXCEPT ![scope] = PushOther(@, Top(from[scope]))]]

\* return { ...change, scope }
Returned(change, scope) == Value(Recorded(change.description, change.ids, scope))

\* #undo(scope): `failing` is the position, among the handles replayed, of
\* the first whose undo throws (0: none).
Undo(optScope, failing) ==
  LET scope == Resolve(optScope)
      g == getStacks(scope)
  IN  /\ Begin("undo", Some(scope), None, NoDeps)
      /\ UNCHANGED handles
      /\ IF ~g.undoIsArray
           \* undoStack.pop is not a function
           THEN /\ failing = 0 /\ calls' = <<>> /\ result' = Throw("TypeError")
                /\ OnlyGetStacks(g)
         ELSE IF Len(g.undoStack[scope]) = 0
           THEN /\ failing = 0 /\ calls' = <<>> /\ result' = Undefined
                /\ OnlyGetStacks(g)
         ELSE LET change == Top(g.undoStack[scope])
                  entries == ReplayEntries(change.ids)
                  moved == MoveTop(g.undoStack, g.redoStack, scope)
              IN  /\ failing \in 0..Len(entries)
                  /\ calls' = [i \in 1..Made(Len(entries), failing) |->
                                 Call("undo", entries[i], Some(scope),
                                      IF i = failing THEN "throw" ELSE "void")]
                  /\ undoStack' = moved.from
                  /\ undoKeys' = g.undoKeys
                  /\ redoKeys' = g.redoKeys
                  /\ IF failing # 0
                       THEN /\ redoStack' = g.redoStack
                            /\ result' = Throw("HandleError")
                       ELSE /\ redoStack' = moved.to
                            /\ result' = Returned(change, scope)

\* #redo(scope): the mirror image of #undo.
Redo(optScope, failing) ==
  LET scope == Resolve(optScope)
      g == getStacks(scope)
  IN  /\ Begin("redo", Some(scope), None, NoDeps)
      /\ UNCHANGED handles
      /\ IF ~g.redoIsArray
           \* redoStack.pop is not a function
           THEN /\ failing = 0 /\ calls' = <<>> /\ result' = Throw("TypeError")
                /\ OnlyGetStacks(g)
         ELSE IF Len(g.redoStack[scope]) = 0
           THEN /\ failing = 0 /\ calls' = <<>> /\ result' = Undefined
                /\ OnlyGetStacks(g)
         ELSE LET change == Top(g.redoStack[scope])
                  entries == ReplayEntries(change.ids)
                  moved == MoveTop(g.redoStack, g.undoStack, scope)
              IN  /\ failing \in 0..Len(entries)
                  /\ calls' = [i \in 1..Made(Len(entries), failing) |->
                                 Call("redo", entries[i], Some(scope),
                                      IF i = failing THEN "throw" ELSE "void")]
                  /\ redoStack' = moved.from
                  /\ undoKeys' = g.undoKeys
                  /\ redoKeys' = g.redoKeys
                  /\ IF failing # 0
                       THEN /\ undoStack' = g.undoStack
                            /\ result' = Throw("HandleError")
                       ELSE /\ undoStack' = moved.to
                            /\ result' = Returned(change, scope)

\* stack.map(change => change.description)
DescriptionsOf(stack) == [i \in 1..Len(stack) |-> stack[i].description]

\* undos(scope) and redos(scope): .map is not a function on an inherited
\* value.
undos(scope) ==
  LET g == getStacks(scope)
  IN  IF g.undoIsArray THEN Value(DescriptionsOf(g.undoStack[scope]))
      ELSE Throw("TypeError")

redos(scope) ==
  LET g == getStacks(scope)
  IN  IF g.redoIsArray THEN Value(DescriptionsOf(g.redoStack[scope]))
      ELSE Throw("TypeError")

\* canUndo(scope) and canRedo(scope): .length > 0 of whatever the slot
\* holds.
canUndo(scope) ==
  LET g == getStacks(scope)
  IN  Value(IF g.undoIsArray THEN Len(g.undoStack[scope]) > 0
            ELSE InheritedLength(scope) > 0)

canRedo(scope) ==
  LET g == getStacks(scope)
  IN  Value(IF g.redoIsArray THEN Len(g.redoStack[scope]) > 0
            ELSE InheritedLength(scope) > 0)

Query(op, optScope, answer) ==
  /\ Begin(op, Some(Resolve(optScope)), None, NoDeps)
  /\ calls' = <<>>
  /\ result' = answer
  /\ OnlyGetStacks(getStacks(Resolve(optScope)))
  /\ UNCHANGED handles

Undos(optScope) == Query("undos", optScope, undos(Resolve(optScope)))
Redos(optScope) == Query("redos", optScope, redos(Resolve(optScope)))
CanUndo(optScope) == Query("canUndo", optScope, canUndo(Resolve(optScope)))
CanRedo(optScope) == Query("canRedo", optScope, canRedo(Resolve(optScope)))

\* The handles a function given to transaction() registers: none or one.
FnAdds == {<<>>} \cup {<<h>> : h \in Handle}

\* Positions in a list of target handles (0: none).
Positions ==
  0..(IF MaxDeps > Cardinality(DocumentId) THEN MaxDeps ELSE Cardinality(DocumentId))

\* How a transaction() call goes: which handle call throws, if any,
\* whether the function throws, and which handles report a change.  A call
\* that has thrown makes no later call.
Outcomes ==
  {o \in [startFailing : Positions, fnThrows : BOOLEAN,
          changed : SUBSET (Positions \ {0}), failing : Positions] :
     /\ (o.startFailing # 0 \/ o.fnThrows) => (o.changed = {} /\ o.failing = 0)
     /\ o.startFailing # 0 => ~o.fnThrows
     /\ o.failing \notin o.changed
     /\ o.failing # 0 => \A i \in o.changed : i < o.failing}

\* What the function of a transaction() call does.
FnReturns == {None, Some("b")}
FnRuns == {Fn(returned, added) : returned \in FnReturns, added \in FnAdds}

Next ==
  \/ Return /\ Untracked
  \/ \E h \in Handle : AddHandle(h) /\ Untracked
  \/ \E id \in DocumentId : GetUndoRedoHandle(id) /\ Untracked
  \/ \E deps \in Dependencies, failing \in Positions :
       StartTransaction(deps, failing) /\ Untracked
  \/ /\ last = Idle
     /\ \E optScope \in OptScope, description \in Description, deps \in Dependencies,
           changed \in SUBSET (Positions \ {0}), failing \in Positions :
          EndTransaction(optScope, description, deps, changed, failing)
     /\ Untracked
  \/ \E optScope \in OptScope, failing \in Positions :
       Undo(optScope, failing) /\ Untracked
  \/ \E optScope \in OptScope, failing \in Positions :
       Redo(optScope, failing) /\ Untracked
  \/ \E optScope \in OptScope : Undos(optScope) /\ Untracked
  \/ \E optScope \in OptScope : Redos(optScope) /\ Untracked
  \/ \E optScope \in OptScope : CanUndo(optScope) /\ Untracked
  \/ \E optScope \in OptScope : CanRedo(optScope) /\ Untracked

Spec == Init /\ [][Next]_vars

\* transaction() with the calls that prepare its cases: registrations, and
\* undos that fill a redo stack.
NextTransaction ==
  \/ Return /\ Untracked
  \/ \E h \in Handle : AddHandle(h) /\ Untracked
  \/ /\ last = Idle
     /\ \E optScope \in OptScope, description \in Description, deps \in Dependencies,
           ran \in FnRuns, ended \in Outcomes :
          /\ Transaction(optScope, description, deps, ended.startFailing,
                         ran.returned, ran.added, ended.fnThrows, ended.changed,
                         ended.failing)
          /\ TotalHistory(undoStack', redoStack') <= MaxTransactions
     /\ Untracked
  \/ \E optScope \in OptScope, failing \in Positions :
       Undo(optScope, failing) /\ Untracked

SpecTransaction == Init /\ [][NextTransaction]_vars

\* The calls that register handles and make history, with the handles'
\* own state followed and every transaction described differently.
NextHandles ==
  \/ Return /\ Untracked
  \/ \E h \in AnyHandle : AddHandle(h) /\ TrackedAdd(h)
  \/ \E id \in DocumentId : GetUndoRedoHandle(id) /\ Untracked
  \/ /\ last = Idle
     /\ ledger.recordings < MaxRecordings
     /\ \E optScope \in OptScope, deps \in Dependencies,
           changed \in SUBSET (Positions \ {0}), failing \in Positions :
          EndTransaction(optScope, NthDescription(ledger.recordings + 1), deps,
                         changed, failing)
     /\ Tracked
  \/ \E optScope \in OptScope, failing \in Positions :
       Undo(optScope, failing) /\ Tracked
  \/ \E optScope \in OptScope, failing \in Positions :
       Redo(optScope, failing) /\ Tracked

SpecHandles == Init /\ [][NextHandles]_vars

(* ===================================================================== *)
(* Properties.  A state in which last # Idle is the state right after the *)
(* call described by `last`: `calls` and `result` are what it did and     *)
(* gave, `pre` the stacks it started from.                                *)
(* ===================================================================== *)

\* The scope the last call resolved.
S == last.scope[1]

\* Sequence operations written out, apart from the model's own.
LastOf(q) == q[Len(q)]
FrontOf(q) == [i \in 1..(Len(q) - 1) |-> q[i]]

Registered(id) == \E i \in 1..Len(handles) : handles[i].id = id
HandleOf(id) == handles[CHOOSE i \in 1..Len(handles) : handles[i].id = id]

\* Some handle call of the last manager call threw.
HandleThrew == \E i \in 1..Len(calls) : calls[i].ret = "throw"

\* The ids of the handles whose endTransaction reported an effective change,
\* in the order they were called.
ReportedIds ==
  LET reported == SelectSeq(calls, LAMBDA c : c.ret = "true")
  IN  [i \in 1..Len(reported) |-> reported[i].h.id]

StacksUntouched == undoStack = pre.undo /\ redoStack = pre.redo

(* ---------------------------------- C1 -------------------------------- *)

\* C1: an endTransaction whose handle calls all return, at least one of
\* them reporting an effective change, returns as ids the ids of the
\* reporting handles in call order, leaves a Change with the given
\* description and those ids on top of the resolved scope's undo stack, and
\* canUndo(scope) is then true.
C1_RecordsReportedIds ==
  (last.op = "endTransaction" /\ ~HandleThrew /\ Len(ReportedIds) > 0)
    => /\ result = Value(Recorded(last.description, ReportedIds, S))
       /\ Len(undoStack[S]) > 0
       /\ LastOf(undoStack[S]) = Change(last.description, ReportedIds)
       /\ canUndo(S) = Value(TRUE)

\* C1 on the scope keys that name no inherited property: there the
\* statement holds, so the key is what decides it.
C1_OnOwnScopes ==
  (last.op = "endTransaction" /\ S \notin ObjectPrototypeKeys) => C1_RecordsReportedIds

(* ---------------------------------- C2 -------------------------------- *)

\* C2: after an endTransaction that records a Change (it returns one), the
\* redo stack of its scope is empty, redos(scope) is the empty list and
\* canRedo(scope) is false, whatever that redo stack held before.
C2_NewEditInvalidatesRedo ==
  (last.op = "endTransaction" /\ result.kind = "value")
    => /\ redoStack[S] = <<>>
       /\ redos(S) = Value(<<>>)
       /\ canRedo(S) = Value(FALSE)

\* A Change was recorded on a scope whose redo stack was not empty.
C2_Witness ==
  /\ last.op = "endTransaction"
  /\ result.kind = "value"
  /\ pre.redo[S] # <<>>

(* ---------------------------------- C3 -------------------------------- *)

\* C3: an endTransaction in which no handle reports an effective change
\* (no target at all included) pushes nothing and leaves every undo and
\* redo stack as it was, a non-empty redo stack of its scope too; when its
\* handle calls all return, it returns nothing.
C3_NoChangeNoEffect ==
  (last.op = "endTransaction" /\ Len(ReportedIds) = 0)
    => /\ StacksUntouched
       /\ ~HandleThrew => result = Undefined

\* Handles were asked, none reported a change, and the scope's redo stack
\* was not empty.
C3_Witness ==
  /\ last.op = "endTransaction"
  /\ Len(calls) > 0
  /\ Len(ReportedIds) = 0
  /\ ~HandleThrew
  /\ pre.redo[S] # <<>>
  /\ redoStack[S] = pre.redo[S]

(* ---------------------------------- C4 -------------------------------- *)

\* What redo(scope) does to the stacks us, rs and what it returns when
\* rs[scope] is a non-empty array and no handle throws: the path of Redo that
\* pops, replays, pushes and returns.
RedoOf(us, rs, scope) ==
  LET moved == MoveTop(rs, us, scope)
  IN  [undoStack |-> moved.to, redoStack |-> moved.from,
       result |-> Returned(Top(rs[scope]), scope)]

\* C4: after an undo(S) that found S's undo stack non-empty and returned a
\* Change, redo(S) restores both stacks to what they were before the undo
\* and returns the same Change with the same scope.
C4_UndoRedoRoundTrip ==
  (last.op = "undo" /\ pre.undo[S] # <<>> /\ result.kind = "value")
    => /\ redoStack[S] # <<>>
       /\ RedoOf(undoStack, redoStack, S).undoStack = pre.undo
       /\ RedoOf(undoStack, redoStack, S).redoStack = pre.redo
       /\ RedoOf(undoStack, redoStack, S).result = result

\* An undo returned a Change from a scope that had two Changes in all, one
\* of them already undone.
C4_Witness ==
  /\ last.op = "undo"
  /\ result.kind = "value"
  /\ Len(pre.undo[S]) = 1
  /\ Len(pre.redo[S]) = 1

(* ---------------------------------- C5 -------------------------------- *)

\* C5: an endTransaction, undo or redo under scope A leaves the undo stack
\* and the redo stack of every other scope key B as they were; the string
\* "default" is another key than the default token.
C5_ScopeIsolation ==
  last.op \in {"endTransaction", "undo", "redo"}
    => \A B \in ScopeKey \ {S} :
         undoStack[B] = pre.undo[B] /\ redoStack[B] = pre.redo[B]

\* A Change was recorded under the string "default" while the default
\* token's scope held an undone Change.
C5_Witness ==
  /\ last.op = "endTransaction"
  /\ result.kind = "value"
  /\ S = Str("default")
  /\ redoStack[defaultScope] # <<>>

(* ---------------------------------- C6 -------------------------------- *)

\* What a replay of `change` under S is when no handle throws: one call of
\* method m per id of change.ids, in list order, on the handle registered
\* for that id, with the scope S.
ReplayOf(m, change) ==
  [i \in 1..Len(change.ids) |-> Call(m, HandleOf(change.ids[i]), Some(S), "void")]

\* C6: undo(S) on a non-empty undo stack removes the Change last pushed and
\* calls only handle.undo(S), on documents of that Change; when those calls
\* all return they are exactly one per id of the Change in list order, the
\* Change is then on top of S's redo stack and is returned with scope S.
\* redo(S) on a non-empty redo stack does the same from the redo stack to
\* the undo stack with handle.redo(S).
C6_UndoRedoDispatch ==
  /\ (last.op = "undo" /\ pre.undo[S] # <<>>)
       => LET change == LastOf(pre.undo[S])
          IN  /\ undoStack[S] = FrontOf(pre.undo[S])
              /\ \A i \in 1..Len(calls) :
                   /\ calls[i].m = "undo"
                   /\ calls[i].scope = Some(S)
                   /\ \E j \in 1..Len(change.ids) : calls[i].h.id = change.ids[j]
              /\ ~HandleThrew
                   => /\ calls = ReplayOf("undo", change)
                      /\ redoStack[S] = Append(pre.redo[S], change)
                      /\ result = Value(Recorded(change.description, change.ids, S))
  /\ (last.op = "redo" /\ pre.redo[S] # <<>>)
       => LET change == LastOf(pre.redo[S])
          IN  /\ redoStack[S] = FrontOf(pre.redo[S])
              /\ \A i \in 1..Len(calls) :
                   /\ calls[i].m = "redo"
                   /\ calls[i].scope = Some(S)
                   /\ \E j \in 1..Len(change.ids) : calls[i].h.id = change.ids[j]
              /\ ~HandleThrew
                   => /\ calls = ReplayOf("redo", change)
                      /\ undoStack[S] = Append(pre.undo[S], change)
                      /\ result = Value(Recorded(change.description, change.ids, S))

\* An undo took the later of two Changes, one made on two documents, and
\* replayed it on both.
C6_Witness ==
  /\ last.op = "undo"
  /\ Len(pre.undo[S]) = 2
  /\ pre.undo[S][1] # pre.undo[S][2]
  /\ Len(calls) = 2
  /\ result.kind = "value"

(* ---------------------------------- C7 -------------------------------- *)

\* C7: undo(S) on a scope whose undo stack is empty, and redo(S) on a scope
\* whose redo stack is empty, return nothing without raising, call no
\* handle and leave every stack as it was.
C7_EmptyStackIsNoOp ==
  /\ (last.op = "undo" /\ pre.undo[S] = <<>>)
       => result = Undefined /\ calls = <<>> /\ StacksUntouched
  /\ (last.op = "redo" /\ pre.redo[S] = <<>>)
       => result = Undefined /\ calls = <<>> /\ StacksUntouched

\* C7 on the scope keys that name no inherited property.
C7_OnOwnScopes ==
  (last.op \in {"undo", "redo"} /\ S \notin ObjectPrototypeKeys) => C7_EmptyStackIsNoOp

(* ---------------------------------- C8 -------------------------------- *)

\* The three transitions of one scope's pair of stacks, from (u, r) to
\* (u2, r2).
IsRecord(u, r, u2, r2) == Len(u2) = Len(u) + 1 /\ FrontOf(u2) = u /\ r2 = <<>>
IsUndo(u, r, u2, r2) == u # <<>> /\ u2 = FrontOf(u) /\ r2 = Append(r, LastOf(u))
IsRedo(u, r, u2, r2) == r # <<>> /\ r2 = FrontOf(r) /\ u2 = Append(u, LastOf(r))

\* C8: in every call each scope's pair of stacks stays as it is or makes
\* exactly one Record, Undo or Redo transition.
C8_ThreeTransitions ==
  \A s \in ScopeKey :
    \/ undoStack[s] = pre.undo[s] /\ redoStack[s] = pre.redo[s]
    \/ IsRecord(pre.undo[s], pre.redo[s], undoStack[s], redoStack[s])
    \/ IsUndo(pre.undo[s], pre.redo[s], undoStack[s], redoStack[s])
    \/ IsRedo(pre.undo[s], pre.redo[s], undoStack[s], redoStack[s])

\* C8 for the calls in which no handle throws.
C8_WhenHandlesReturn == ~HandleThrew => C8_ThreeTransitions

(* ---------------------------------- C9 -------------------------------- *)

\* The handles the last call set out to call, in order, and the handle
\* method it calls on them.
Targets ==
  IF last.op \in {"startTransaction", "endTransaction"} THEN HandleEntries(last.deps)
  ELSE IF last.op = "undo" /\ pre.undo[S] # <<>>
    THEN ReplayEntries(LastOf(pre.undo[S]).ids)
  ELSE IF last.op = "redo" /\ pre.redo[S] # <<>>
    THEN ReplayEntries(LastOf(pre.redo[S]).ids)
  ELSE <<>>

\* C9: when a handle call throws during startTransaction, endTransaction,
\* undo or redo, the manager call throws that error, the targets before
\* the failing one have each had their call, the failing call is the last
\* call made, and every call made is a call of the operation's own method.
C9_HandleFailurePropagates ==
  (last.op \in {"startTransaction", "endTransaction", "undo", "redo"} /\ HandleThrew)
    => /\ result = Throw("HandleError")
       /\ calls[Len(calls)].ret = "throw"
       /\ \A i \in 1..(Len(calls) - 1) : calls[i].ret # "throw"
       /\ Len(calls) <= Len(Targets)
       /\ \A i \in 1..Len(calls) : calls[i].h = Targets[i] /\ calls[i].m = last.op

\* The first of two targets threw and the second was never called.
C9_Witness ==
  /\ HandleThrew
  /\ Len(Targets) = 2
  /\ Len(calls) = 1

(* ---------------------------------- C10 ------------------------------- *)

\* The registered handles named by a dependencies list, in the order of the
\* list; every registered handle in registration order when there is none.
Named(deps) ==
  IF deps.given
    THEN LET RECURSIVE Pick(_)
             Pick(i) ==
               IF i > Len(deps.ids) THEN <<>>
               ELSE IF Registered(deps.ids[i])
                 THEN <<HandleOf(deps.ids[i])>> \o Pick(i + 1)
               ELSE Pick(i + 1)
         IN  Pick(1)
    ELSE handles

\* C10: startTransaction and endTransaction call the handles named by the
\* dependencies that are registered, in dependency order, and no other;
\* with no dependencies, every registered handle once in registration
\* order.  Unregistered ids raise nothing: without a target the call
\* returns nothing.
C10_TargetResolution ==
  last.op \in {"startTransaction", "endTransaction"}
    => /\ Len(calls) <= Len(Named(last.deps))
       /\ \A i \in 1..Len(calls) :
            calls[i].h = Named(last.deps)[i] /\ calls[i].m = last.op
       /\ ~HandleThrew => Len(calls) = Len(Named(last.deps))
       /\ Named(last.deps) = <<>> => result = Undefined

\* The dependencies name an unregistered document and then a registered one:
\* only the registered one is called.
C10_Witness ==
  /\ last.op \in {"startTransaction", "endTransaction"}
  /\ last.deps.given
  /\ Len(last.deps.ids) = 2
  /\ ~Registered(last.deps.ids[1])
  /\ Len(calls) = 1
  /\ ~HandleThrew

(* ---------------------------------- C11 ------------------------------- *)

\* The handles of `registry` named by a dependencies list, in the order of
\* the list; all of `registry` in its order when there is none.
NamedIn(registry, deps) ==
  IF deps.given
    THEN LET RECURSIVE Pick(_)
             Pick(i) ==
               IF i > Len(deps.ids) THEN <<>>
               ELSE IF \E k \in 1..Len(registry) : registry[k].id = deps.ids[i]
                 THEN <<registry[CHOOSE k \in 1..Len(registry) :
                                   registry[k].id = deps.ids[i]]>> \o Pick(i + 1)
               ELSE Pick(i + 1)
         IN  Pick(1)
    ELSE registry

PrefixOf(p, q) == Len(p) <= Len(q) /\ \A i \in 1..Len(p) : p[i] = q[i]

\* The scope argument that resolves to the last call's scope.
GivenScope == IF S = defaultScope THEN None ELSE Some(S)

\* The calls of one method among the last call's handle calls.
CallsOf(m) == SelectSeq(calls, LAMBDA c : c.m = m)

\* The description the two-call form passes to endTransaction: what the
\* function returned if it returned one, else the description of the options.
GivenDescription ==
  IF last.fn.returned # None THEN last.fn.returned ELSE last.description

\* What startTransaction(last.deps) called from the state `pre` does when
\* its handle calls return.
StartForm ==
  [i \in 1..Len(NamedIn(pre.handles, last.deps)) |->
     Call("startTransaction", NamedIn(pre.handles, last.deps)[i], None, "void")]

\* What endTransaction does, called with the scope and the dependencies of
\* the last call and the description GivenDescription on the stacks of
\* `pre`, when its handle calls go as the endTransaction calls of the last
\* call went.
EndFormCalls ==
  LET entries == NamedIn(handles, last.deps)
  IN  /\ Len(CallsOf("endTransaction")) <= Len(entries)
      /\ \A i \in 1..Len(CallsOf("endTransaction")) :
           /\ CallsOf("endTransaction")[i].h = entries[i]
           /\ CallsOf("endTransaction")[i].scope = GivenScope
      /\ ~HandleThrew => Len(CallsOf("endTransaction")) = Len(entries)

EndFormOutcome ==
  IF HandleThrew THEN result = Throw("HandleError") /\ StacksUntouched
  ELSE IF Len(ReportedIds) = 0 THEN result = Undefined /\ StacksUntouched
  ELSE IF S \in ObjectPrototypeKeys THEN result = Throw("TypeError") /\ StacksUntouched
  ELSE /\ result = Value(Recorded(GivenDescription, ReportedIds, S))
       /\ undoStack = [pre.undo EXCEPT
                         ![S] = Append(@, Change(GivenDescription, ReportedIds))]
       /\ redoStack = [pre.redo EXCEPT ![S] = <<>>]

\* startTransaction threw in the last call; the function threw in it.
StartThrew == HandleThrew /\ LastOf(calls).m = "startTransaction"
FnThrew == result = Throw("FnError")

\* C11: transaction(fn, options) does what startTransaction(options.
\* dependencies), then fn(), then endTransaction with the same scope and
\* dependencies and the description fn returned (else options.description)
\* do: the same handle calls in the same order, the same stacks, the same
\* result.  When startTransaction throws nothing follows it; when fn throws
\* endTransaction is not called.
C11_TransactionIsStartFnEnd ==
  last.op = "transaction"
    => /\ calls = CallsOf("startTransaction") \o CallsOf("endTransaction")
       /\ IF StartThrew
            THEN /\ PrefixOf(FrontOf(calls), StartForm)
                 /\ LastOf(calls).h = StartForm[Len(calls)].h
                 /\ result = Throw("HandleError")
                 /\ StacksUntouched
                 /\ handles = pre.handles
          ELSE IF FnThrew
            THEN calls = StartForm /\ StacksUntouched
          ELSE /\ CallsOf("startTransaction") = StartForm
               /\ EndFormCalls
               /\ EndFormOutcome

\* The function returned "b" while the options gave "a", on an explicit
\* scope and two dependencies: both handles were started and ended and the
\* Change recorded is described "b".
C11_Witness ==
  /\ last.op = "transaction"
  /\ last.description = Some("a")
  /\ last.fn.returned = Some("b")
  /\ last.deps.given
  /\ S = Str("default")
  /\ Len(calls) = 4
  /\ result.kind = "value"
  /\ result.value.description = Some("b")

(* ---------------------------------- C12 ------------------------------- *)

\* The descriptions of a stack, the oldest Change first.
OldestFirst(stack) ==
  LET RECURSIVE Listed(_)
      Listed(n) == IF n = 0 THEN <<>>
                   ELSE Append(Listed(n - 1), stack[n].description)
  IN  Listed(Len(stack))

\* C12: undos(S) and redos(S) return the descriptions of S's undo stack and
\* redo stack in stored order, oldest first; canUndo(S) and canRedo(S) are
\* true exactly when that stack is not empty.
C12_QueriesReadTheStacks ==
  /\ last.op = "undos" => result = Value(OldestFirst(pre.undo[S]))
  /\ last.op = "redos" => result = Value(OldestFirst(pre.redo[S]))
  /\ last.op = "canUndo" => result = Value(pre.undo[S] # <<>>)
  /\ last.op = "canRedo" => result = Value(pre.redo[S] # <<>>)

\* C12 on the scope keys that name no inherited property.
C12_OnOwnScopes ==
  (last.op \in {"undos", "redos", "canUndo", "canRedo"} /\ S \notin ObjectPrototypeKeys)
    => C12_QueriesReadTheStacks

(* ---------------------------------- C13 ------------------------------- *)

Queries == {"undos", "redos", "canUndo", "canRedo"}

\* What the query just made gives when it is made again at once.
AskedAgain ==
  CASE last.op = "undos" -> undos(S)
    [] last.op = "redos" -> redos(S)
    [] last.op = "canUndo" -> canUndo(S)
    [] last.op = "canRedo" -> canRedo(S)

\* C13: undos, redos, canUndo and canRedo leave the contents of every stack
\* and the registry as they were and call no handle, and the same query
\* made again at once gives the same result.
C13_QueriesArePure ==
  last.op \in Queries
    => /\ StacksUntouched
       /\ handles = pre.handles
       /\ calls = <<>>
       /\ AskedAgain = result

\* A query was made on a scope that holds a Change on each of its stacks.
C13_Witness ==
  /\ last.op \in Queries
  /\ pre.undo[S] # <<>>
  /\ pre.redo[S] # <<>>

(* ---------------------------------- C14 ------------------------------- *)

\* C14: the registry holds at most one handle per document id; a document
\* is registered exactly when addHandle was called for it, and its handle
\* is the one most recently given to addHandle for it; getUndoRedoHandle(id)
\* returns that handle, or nothing when addHandle was never called for id;
\* addHandle returns the handle it stored.
C14_RegistryKeepsLastAdded ==
  /\ \A i, j \in 1..Len(handles) : handles[i].id = handles[j].id => i = j
  /\ \A id \in DocumentId :
       IF ledger.lastAdded[id] = None THEN ~Registered(id)
       ELSE Registered(id) /\ HandleOf(id) = ledger.lastAdded[id][1]
  /\ last.op = "getUndoRedoHandle"
       => result = IF ledger.lastAdded[last.id[1]] = None THEN Undefined
                   ELSE Value(ledger.lastAdded[last.id[1]][1])
  /\ last.op = "addHandle"
       => /\ result.kind = "value"
          /\ ledger.lastAdded[result.value.id] = Some(result.value)

\* getUndoRedoHandle returned the second handle object given for a
\* document, which had replaced the first, while the other document had
\* never been registered.
C14_Witness ==
  /\ last.op = "getUndoRedoHandle"
  /\ ledger.replaced
  /\ result.kind = "value"
  /\ result.value.obj \in OtherWrapper
  /\ \E id \in DocumentId : ~Registered(id)

(* ---------------------------------- C15 ------------------------------- *)

\* The last call, an undo (m = "undo") or a redo (m = "redo") that returned
\* a Change, called m once on the handle of each document of the Change,
\* and the entry each of these handles then reversed (reapplied), the most
\* recent one it held for the scope, is the entry it recorded in the
\* transaction that created the Change.
ReplaysOwnEntries(m) ==
  LET change == result.value
  IN  /\ Len(calls) = Len(change.ids)
      /\ \A i \in 1..Len(calls) :
           LET held == pre.handleState[calls[i].h][S]
               entries == IF m = "undo" THEN held.undo ELSE held.redo
           IN  /\ calls[i].m = m
               /\ calls[i].h.id = change.ids[i]
               /\ entries # <<>>
               /\ LastOf(entries) = change.description

\* C15 as claimed: with handles driven only through the manager, no handle
\* call raising and handles that keep per-scope entries, every undo(S) of a
\* Change makes each document of the Change reverse exactly the edit it
\* recorded in the transaction that created the Change, and every redo(S)
\* reapply exactly it.
C15_HistoriesCorrespond ==
  ~ledger.raised
    => /\ (last.op = "undo" /\ result.kind = "value") => ReplaysOwnEntries("undo")
       /\ (last.op = "redo" /\ result.kind = "value") => ReplaysOwnEntries("redo")

\* C15 amended: the same, as long as addHandle has not replaced a
\* registered handle by another handle object.
C15_CorrespondUnlessReplaced ==
  (~ledger.raised /\ ~ledger.replaced) => C15_HistoriesCorrespond

\* With no handle replaced, the earlier of two Changes that both touched a
\* document was undone after the later one: the handle reversed its older
\* entry.
C15_Witness ==
  /\ ~ledger.replaced
  /\ last.op = "undo"
  /\ result.kind = "value"
  /\ ledger.recordings = 2
  /\ result.value.description = NthDescription(1)
  /\ \E i \in 1..Len(calls) : pre.handleState[calls[i].h][S].redo # <<>>

(* ---------------------------------- C16 ------------------------------- *)

\* C16: when a handle's undo or redo throws during undo(S) or redo(S), both
\* stacks of S (and of every scope) are as they were before the call: the
\* Change is still on top of the stack it was taken from.
C16_FailedReplayKeepsStacks ==
  (last.op \in {"undo", "redo"} /\ HandleThrew) => StacksUntouched

(* ---------------------------------- C17 ------------------------------- *)

\* Every Change held by a stack.
Held(us, rs) ==
  UNION {{us[s][i] : i \in 1..Len(us[s])} \cup {rs[s][i] : i \in 1..Len(rs[s])} :
         s \in ScopeKey}

\* C17: every Change in a stack has at least one id and every id of it is
\* registered, so an undo or a redo finds a handle for every id of the
\* Change it replays.
C17_ChangesNameRegisteredHandles ==
  /\ \A change \in Held(undoStack, redoStack) :
       /\ Len(change.ids) > 0
       /\ \A i \in 1..Len(change.ids) : Registered(change.ids[i])
  /\ (last.op \in {"undo", "redo"} /\ ~HandleThrew /\ result.kind = "value")
       => Len(calls) = Len(result.value.ids)

\* A Change made on two documents was replayed by a redo, on both.
C17_Witness ==
  /\ last.op = "redo"
  /\ result.kind = "value"
  /\ Len(result.value.ids) = 2
  /\ Len(calls) = 2

(* ---------------------------------- C18 ------------------------------- *)

\* The handles the last call called method m on, in call order.
HandlesOf(m) == [i \in 1..Len(CallsOf(m)) |-> CallsOf(m)[i].h]

ReturnedNormally == result.kind # "throw"

\* C18 as claimed: in every transaction() that returns normally, whatever
\* the function does (registering handles with addHandle included),
\* handle.endTransaction is called on exactly the handles
\* handle.startTransaction was called on, in the same order.
C18_StartEndPairing ==
  (last.op = "transaction" /\ ReturnedNormally)
    => HandlesOf("endTransaction") = HandlesOf("startTransaction")

\* C18 amended: the pairing holds in every transaction() that returns
\* normally and whose function registers no handle; in every one that
\* returns normally the handles started are the targets in the registry as
\* it was before the function ran and the handles ended are the targets in
\* the registry as the function left it.
C18_PairingUnlessFnRegisters ==
  (last.op = "transaction" /\ ReturnedNormally)
    => /\ HandlesOf("startTransaction") = NamedIn(pre.handles, last.deps)
       /\ HandlesOf("endTransaction") = NamedIn(handles, last.deps)
       /\ last.fn.added = <<>>
            => HandlesOf("endTransaction") = HandlesOf("startTransaction")

\* A transaction whose function registered nothing returned a Change after
\* starting and ending two handles named in the reverse of their
\* registration order.
C18_Witness ==
  /\ last.op = "transaction"
  /\ result.kind = "value"
  /\ last.fn.added = <<>>
  /\ last.deps.given
  /\ Len(HandlesOf("startTransaction")) = 2
  /\ HandlesOf("startTransaction") # handles
  /\ HandlesOf("endTransaction") = HandlesOf("startTransaction")

(* ---------------------------------- C19 ------------------------------- *)

\* The places of the stacks us, rs that hold a Change, and the Change at a
\* place.
Places(us, rs) ==
  UNION {{[stack |-> "undo", scope |-> s, index |-> i] : i \in 1..Len(us[s])} \cup
         {[stack |-> "redo", scope |-> s, index |-> i] : i \in 1..Len(rs[s])} :
         s \in ScopeKey}

ChangeAt(us, rs, p) ==
  IF p.stack = "undo" THEN us[p.scope][p.index] ELSE rs[p.scope][p.index]

\* C19: when every transaction is given a description of its own, no two
\* places of the stacks hold a Change of the same description (a recorded
\* Change is at one place at most: not on an undo stack and a redo stack at
\* once, not twice on a stack, not under two scopes); a Change that was
\* there before the last call is under the same scope with the same
\* description and ids after it; and a Change that was not is the one the
\* last call, an endTransaction, recorded and returned.
C19_ChangeHasOnePlace ==
  LET now == Places(undoStack, redoStack)
      before == Places(pre.undo, pre.redo)
  IN  /\ \A p, q \in now :
           ChangeAt(undoStack, redoStack, p).description
             = ChangeAt(undoStack, redoStack, q).description => p = q
      /\ \A p \in now :
           LET change == ChangeAt(undoStack, redoStack, p)
               was == {q \in before :
                         ChangeAt(pre.undo, pre.redo, q).description = change.description}
           IN  IF was = {}
                 THEN /\ last.op = "endTransaction"
                      /\ p = [stack |-> "undo", scope |-> S, index |-> Len(undoStack[S])]
                      /\ result = Value(Recorded(change.description, change.ids, S))
               ELSE \A q \in was :
                      /\ q.scope = p.scope
                      /\ ChangeAt(pre.undo, pre.redo, q) = change

\* An undo moved the later of the two Changes of a scope to its redo
\* stack: the scope holds one Change on each stack.
C19_Witness ==
  /\ last.op = "undo"
  /\ result.kind = "value"
  /\ Len(pre.undo[S]) = 2
  /\ Len(undoStack[S]) = 1
  /\ Len(redoStack[S]) = 1

(* ---------------------------------- C20 ------------------------------- *)

\* The last call is the first reference to its scope key.
FirstReference ==
  /\ last.op \in Queries \cup {"undo", "redo"}
  /\ S \notin pre.undoKeys
  /\ S \notin pre.redoKeys

\* C20: on a scope key never referenced before, built-in property names
\* included, canUndo and canRedo return false, undos and redos return the
\* empty list, undo and redo return nothing, and none raises; the key then
\* has an empty undo stack and an empty redo stack of its own.  A key, once
\* there, stays.
C20_LazyScopeCreation ==
  /\ FirstReference
       => /\ last.op \in {"canUndo", "canRedo"} => result = Value(FALSE)
          /\ last.op \in {"undos", "redos"} => result = Value(<<>>)
          /\ last.op \in {"undo", "redo"} => result = Undefined
          /\ S \in undoKeys /\ undoStack[S] = <<>>
          /\ S \in redoKeys /\ redoStack[S] = <<>>
  /\ pre.undoKeys \subseteq undoKeys
  /\ pre.redoKeys \subseteq redoKeys

\* C20 on the scope keys that name no inherited property.
C20_OnOwnScopes ==
  (last.op \in Queries \cup {"undo", "redo"} /\ S \in ObjectPrototypeKeys)
    \/ C20_LazyScopeCreation

====
